---- MODULE Spec2Model ----
(***************************************************************************)
(* DataValidationSystem of 05_exception_handling.py: a registry of         *)
(* per-field rules (validation_rules), a list of error messages            *)
(* (validation_errors), and the operations add_validation_rule,            *)
(* validate_field, validate_data and get_errors.                           *)
(*                                                                         *)
(* A Python dict is a function whose DOMAIN is its key set; a list is a    *)
(* sequence; a rule tuple (rule_func, error_message) is a 2-tuple.  A      *)
(* record passed to validate_data is a dict, modelled as the sequence of   *)
(* its (field_name, value) items in iteration order, with distinct keys.   *)
(***************************************************************************)
EXTENDS Integers, Sequences, FiniteSets, TLC

VARIABLES
    validation_rules,   \* self.validation_rules : dict field_name -> list of rules
    validation_errors,  \* self.validation_errors : list of str
    last,               \* observation of the most recent call: its arguments, its
                        \* outcome, the log its loop started from (before) and,
                        \* for validate_data, the dict after the call (after)
    source,             \* for each entry of validation_errors, the call kind that appended it
    validated,          \* TRUE once validate_data has been called
    held,               \* the list object a caller got from get_errors and kept
    twice,              \* what two validate_data calls in a row on one record gave
    registered,         \* the add_validation_rule calls made, oldest first
    log_file,           \* LogProcessor: the lines of the file at log_file_path
    logs,               \* LogProcessor: self.logs
    loads,              \* LogProcessor: number of load_logs calls made
    log_last,           \* LogProcessor: the most recent call and what it returned
    balance,            \* BankAccount: self._balance
    transactions,       \* BankAccount: self._transactions
    bank_last,          \* BankAccount: the most recent call, its answer, the account before it
    accepted,           \* BankAccount: the calls not answered by a rejection, oldest first
    initial_balance,    \* BankAccount: the initial_balance the account was created with
    bank_held,          \* BankAccount: the list object a caller got from the account and kept
    is_borrowed,        \* Library: book.is_borrowed of each Book
    borrower,           \* Library: book.borrower of each Book
    borrowed_books,     \* Library: member.borrowed_books of each LibraryMember
    lib_last,           \* Library: the most recent call, its answer, the state before it
    processor_data,     \* DataProcessor: self.data
    proc_last,          \* DataProcessor: the most recent call, its answer, self.data before it
    first_added,        \* DataProcessor: for each key, the value of the first add_item that returned True
    db_address,         \* DatabaseConnection: "host:port" of the object
    connection,         \* DatabaseConnection: self.connection
    with_pc,            \* DatabaseConnection: where the with statement and its caller stand
    pending,            \* DatabaseConnection: the exception in flight, "" if none
    body_raised,        \* DatabaseConnection: the exception the body of this with raised, "" if none
    events,             \* DatabaseConnection: what happened in this with statement, oldest first
    with_runs,          \* DatabaseConnection: number of with statements entered
    csv_files,          \* 06 insert: the rows of employees.csv, products.csv and orders.csv
    tables,             \* 06 insert: the committed ids of the three tables, and the ids
                        \* inserted in the open transaction
    report,             \* 06 insert: what insert_data_from_files printed as inserted
    unset_vars,         \* 06 main: the required environment variables that are not set
    main_pc,            \* 06 main: the statement main is about to run
    main_connection,    \* 06 main: the local `connection`: unassigned, None, open or closed
    main_pending,       \* 06 main: the exception in flight, "" if none
    db_steps            \* 06 main: the steps given the connection that have run, oldest first

engineVars == <<validation_rules, validation_errors, last, source, validated>>

callerVars == <<held, twice, registered>>

validatorVars == <<engineVars, callerVars>>

logVars == <<log_file, logs, loads, log_last>>

bankVars == <<balance, transactions, bank_last, accepted, initial_balance,
              bank_held>>

libraryVars == <<is_borrowed, borrower, borrowed_books, lib_last>>

processorVars == <<processor_data, proc_last, first_added>>

connectionVars == <<db_address, connection, with_pc, pending, body_raised,
                    events, with_runs>>

insertVars == <<csv_files, tables, report>>

mainVars == <<unset_vars, main_pc, main_connection, main_pending, db_steps>>

\* everything outside the DataValidationSystem
otherVars ==
    <<logVars,
      bankVars,
      libraryVars,
      processorVars,
      connectionVars,
      insertVars,
      mainVars>>

\* everything outside the LogProcessor
notLogVars ==
    <<validatorVars,
      bankVars,
      libraryVars,
      processorVars,
      connectionVars,
      insertVars,
      mainVars>>

\* everything outside the BankAccount
notBankVars ==
    <<validatorVars,
      logVars,
      libraryVars,
      processorVars,
      connectionVars,
      insertVars,
      mainVars>>

\* everything outside the books and members of the library
notLibraryVars ==
    <<validatorVars,
      logVars,
      bankVars,
      processorVars,
      connectionVars,
      insertVars,
      mainVars>>

\* everything outside the DataProcessor
notProcessorVars ==
    <<validatorVars,
      logVars,
      bankVars,
      libraryVars,
      connectionVars,
      insertVars,
      mainVars>>

\* everything outside the DatabaseConnection and its with statement
notConnectionVars ==
    <<validatorVars,
      logVars,
      bankVars,
      libraryVars,
      processorVars,
      insertVars,
      mainVars>>

\* everything outside the tables insert_data_from_files fills
notInsertVars ==
    <<validatorVars,
      logVars,
      bankVars,
      libraryVars,
      processorVars,
      connectionVars,
      mainVars>>

\* everything outside the run of main
notMainVars ==
    <<validatorVars,
      logVars,
      bankVars,
      libraryVars,
      processorVars,
      connectionVars,
      insertVars>>

vars == <<validatorVars, otherVars>>

----------------------------------------------------------------------------
(* Bounds of the exploration *)

\* total number of rules registered on one engine
MaxRules == 3
\* validate_field is called directly only while the log is shorter than this
MaxLog == 2
\* rules registered while a caller keeps and mutates a returned list
MaxCopyRules == 1
\* rules registered before a record is validated twice in a row
MaxTwiceRules == 2
\* a caller appends to the list it holds only while it is shorter than this
MaxHeld == 2

----------------------------------------------------------------------------
(* Inputs: field names, values, predicates and messages *)

Fields == {"age", "salary"}

IntValue(n) == [type |-> "int", int |-> n, str |-> ""]
StrValue(s) == [type |-> "str", int |-> 0, str |-> s]

\* 25 and 200 are the ages of practical_example's test cases, "thirty" its string age
Values == {IntValue(25), IntValue(200), StrValue("thirty")}

\* the predicates handed to add_validation_rule
RuleFuncs == {"is_int", "in_range", "int_in_range"}

\* (rule_func, error_message) tuples; the third is the "age" rule of practical_example
Rules == {<<"is_int", "Age must be an integer">>,
          <<"in_range", "Age must be between 0 and 150">>,
          <<"int_in_range", "Age must be an integer between 0 and 150">>}

NoExc == [type |-> "", str |-> ""]

\* the classes derived from Exception that a rule evaluation raises here
ExceptionClasses == {"ValidationError", "TypeError"}

\* rule_func(value): what the call returns, or the exception it raises.
\*   is_int       : lambda x: isinstance(x, int)
\*   in_range     : lambda x: 0 <= x <= 150          (TypeError on a str)
\*   int_in_range : lambda x: isinstance(x, int) and 0 <= x <= 150
Call(rule_func, value) ==
    LET Ret(b) == [raised |-> FALSE, ret |-> b, exc |-> NoExc]
        InRange == value.int >= 0 /\ value.int <= 150
    IN  CASE rule_func = "is_int" -> Ret(value.type = "int")
          [] rule_func = "in_range" ->
                IF value.type = "int" THEN Ret(InRange)
                ELSE [raised |-> TRUE, ret |-> FALSE,
                      exc |-> [type |-> "TypeError",
                               str |-> "'<=' not supported between instances of 'int' and 'str'"]]
          [] rule_func = "int_in_range" -> Ret(value.type = "int" /\ InRange)

----------------------------------------------------------------------------
(* validate_field *)

\* the body of the try block: the exception it raises, NoExc when it completes
TryRule(rule, field_name, value) ==
    LET out == Call(rule[1], value)
    IN  IF out.raised THEN out.exc
        ELSE IF ~out.ret
             THEN [type |-> "ValidationError", str |-> field_name \o ": " \o rule[2]]
             ELSE NoExc

\* variant: the clause is `except ValidationError`, other classes propagate
ExceptClauseCatchesValidationErrorOnly(exc) == exc.type = "ValidationError"

\* `except Exception as e` catches every class derived from Exception
ExceptClauseCatches(exc) == exc.type \in ExceptionClasses

\* the handler body: self.validation_errors.append(str(e))
HandleException(errors, exc) == Append(errors, exc.str)

RECURSIVE RuleLoopKeepsGoing(_, _, _, _, _)
\* variant: the handler lacks `return False`, so every failing rule is recorded
RuleLoopKeepsGoing(ruleset, i, errors, field_name, value) ==
    IF i > Len(ruleset)
    THEN [ret |-> TRUE, errors |-> errors, evaluated |-> i - 1, escaped |-> NoExc]
    ELSE LET e == TryRule(ruleset[i], field_name, value)
             rest == RuleLoopKeepsGoing(ruleset, i + 1,
                                        IF e = NoExc THEN errors ELSE Append(errors, e.str),
                                        field_name, value)
         IN  IF e = NoExc THEN rest ELSE [rest EXCEPT !.ret = FALSE]

RECURSIVE RuleLoopFirstPassWins(_, _, _, _, _)
\* variant: `return True` sits inside the loop, after the first passing rule
RuleLoopFirstPassWins(ruleset, i, errors, field_name, value) ==
    IF i > Len(ruleset)
    THEN [ret |-> TRUE, errors |-> errors, evaluated |-> i - 1, escaped |-> NoExc]
    ELSE LET e == TryRule(ruleset[i], field_name, value)
         IN  IF e = NoExc
             THEN [ret |-> TRUE, errors |-> errors, evaluated |-> i, escaped |-> NoExc]
             ELSE [ret |-> FALSE, errors |-> Append(errors, e.str),
                   evaluated |-> i, escaped |-> NoExc]

RECURSIVE RuleLoop(_, _, _, _, _)
\* the for loop over self.validation_rules[field_name], from rule i on.
\* evaluated = number of rules whose predicate was called; escaped = the
\* exception leaving validate_field, NoExc on a normal return.
RuleLoop(ruleset, i, errors, field_name, value) ==
    IF i > Len(ruleset)
    THEN [ret |-> TRUE, errors |-> errors, evaluated |-> i - 1, escaped |-> NoExc]
    ELSE LET e == TryRule(ruleset[i], field_name, value)
         IN  IF e = NoExc
             THEN RuleLoop(ruleset, i + 1, errors, field_name, value)
             ELSE IF ExceptClauseCatches(e)
                  THEN [ret |-> FALSE, errors |-> HandleException(errors, e),
                        evaluated |-> i, escaped |-> NoExc]
                  ELSE [ret |-> FALSE, errors |-> errors,
                        evaluated |-> i, escaped |-> e]

\* variant: a field without rules is reported as an error
NoRulesIsAnError(errors) ==
    [ret |-> FALSE, errors |-> Append(errors, "no rules"), evaluated |-> 0,
     escaped |-> NoExc]

\* the early return for a field that is no key of validation_rules
NoRules(errors) ==
    [ret |-> TRUE, errors |-> errors, evaluated |-> 0, escaped |-> NoExc]

\* variant: the key test is missing and a field without rules is rejected
validate_field_strict(rules, errors, field_name, value) ==
    IF field_name \notin DOMAIN rules
    THEN [ret |-> FALSE, errors |-> errors, evaluated |-> 0, escaped |-> NoExc]
    ELSE RuleLoop(rules[field_name], 1, errors, field_name, value)

validate_field(rules, errors, field_name, value) ==
    IF field_name \notin DOMAIN rules
    THEN NoRules(errors)
    ELSE RuleLoop(rules[field_name], 1, errors, field_name, value)

----------------------------------------------------------------------------
(* validate_data *)

\* variant: the log is not cleared
ClearNothing(errors) == errors

\* self.validation_errors.clear()
Clear(errors) == <<>>

\* variant: is_valid = self.validate_field(...), the last field decides
UpdateValidLastWins(is_valid, field_ret) == field_ret

\* is_valid after one validate_field call
UpdateValid(is_valid, field_ret) == IF ~field_ret THEN FALSE ELSE is_valid

RECURSIVE FieldLoopStopsAtFailure(_, _, _, _, _, _)
\* variant: `return False` at the first failing field
FieldLoopStopsAtFailure(rules, data, k, errors, is_valid, calls) ==
    IF k > Len(data)
    THEN [ret |-> is_valid, errors |-> errors, calls |-> calls, escaped |-> NoExc,
          data |-> data]
    ELSE LET r == validate_field(rules, errors, data[k][1], data[k][2])
             c == [field_name |-> data[k][1], value |-> data[k][2],
                   ret |-> r.ret, evaluated |-> r.evaluated]
         IN  IF ~r.ret
             THEN [ret |-> FALSE, errors |-> r.errors,
                   calls |-> Append(calls, c), escaped |-> r.escaped, data |-> data]
             ELSE FieldLoopStopsAtFailure(rules, data, k + 1, r.errors,
                                          is_valid, Append(calls, c))

RECURSIVE FieldLoop(_, _, _, _, _, _)
\* the for loop over data.items(), from item k on.  calls lists the
\* validate_field calls made, each with its arguments and outcome; data is the
\* dict as the loop leaves it.
FieldLoop(rules, data, k, errors, is_valid, calls) ==
    IF k > Len(data)
    THEN [ret |-> is_valid, errors |-> errors, calls |-> calls, escaped |-> NoExc,
          data |-> data]
    ELSE LET r == validate_field(rules, errors, data[k][1], data[k][2])
             c == [field_name |-> data[k][1], value |-> data[k][2],
                   ret |-> r.ret, evaluated |-> r.evaluated]
         IN  IF r.escaped # NoExc
             THEN [ret |-> FALSE, errors |-> r.errors,
                   calls |-> Append(calls, c), escaped |-> r.escaped, data |-> data]
             ELSE FieldLoop(rules, data, k + 1, r.errors,
                            UpdateValid(is_valid, r.ret), Append(calls, c))

\* variant: every field of the registry is required, a field missing from the
\* record is reported and makes the result false
validate_data_required(rules, errors, data) ==
    LET r == FieldLoop(rules, data, 1, Clear(errors), TRUE, <<>>)
        present == {data[k][1] : k \in DOMAIN data}
        missing == DOMAIN rules \ present
    IN  IF missing = {} THEN r
        ELSE [r EXCEPT !.ret = FALSE, !.errors = Append(@, "missing required field")]

validate_data(rules, errors, data) ==
    FieldLoop(rules, data, 1, Clear(errors), TRUE, <<>>)

----------------------------------------------------------------------------
(* get_errors *)

\* self.validation_errors.copy(): a new list with the same entries
get_errors(errors) == [i \in 1..Len(errors) |-> errors[i]]

----------------------------------------------------------------------------
(* The engine as a state machine *)

\* dicts to validate: the items of a dict, keys distinct, in iteration order
Records ==
    {<<>>}
    \cup {<<<<f, v>>>> : f \in Fields, v \in Values}
    \cup {<<<<f, v>>, <<g, w>>>> : <<f, v, g, w>> \in
             {t \in Fields \X Values \X Fields \X Values : t[1] # t[3]}}

NoValue == StrValue("")

\* dirty: the log held entries when the call began; rules: the registry when
\* the call began
Observe(op, field_name, value, data, r, result, before) ==
    [op |-> op, field_name |-> field_name, value |-> value, data |-> data,
     ret |-> r.ret, escaped |-> r.escaped, evaluated |-> r.evaluated,
     calls |-> r.calls, result |-> result, before |-> before,
     dirty |-> validation_errors # <<>>, rules |-> validation_rules]

NoResult == [ret |-> FALSE, escaped |-> NoExc, evaluated |-> 0, calls |-> <<>>]

RECURSIVE SumLen(_, _)
SumLen(f, S) ==
    IF S = {} THEN 0
    ELSE LET k == CHOOSE x \in S : TRUE IN Len(f[k]) + SumLen(f, S \ {k})

TotalRules == SumLen(validation_rules, DOMAIN validation_rules)

\* entries 1..Len(old) keep their tag, the entries after them get `tag`
Tag(old, newLen, tag) ==
    [i \in 1..newLen |-> IF i <= Len(old) THEN old[i] ELSE tag]

\* the caller holds no list yet
NoList == [ref |-> "none", items |-> <<>>]

InitEngine ==
    /\ validation_rules = [f \in {} |-> <<>>]
    /\ validation_errors = <<>>
    /\ last = Observe("__init__", "", NoValue, <<>>, NoResult, <<>>, <<>>)
    /\ source = <<>>
    /\ validated = FALSE

\* no pair of validate_data calls observed
NoPair == [ran |-> FALSE, data |-> <<>>,
           first |-> [ret |-> FALSE, errors |-> <<>>],
           second |-> [ret |-> FALSE, errors |-> <<>>]]

\* no LogProcessor call made yet
NoLogCall == [op |-> "none", line |-> <<>>, escaped |-> "", count |-> 0,
              value |-> [timestamp |-> <<>>, level |-> "", message |-> <<>>]]

\* a LogProcessor on an empty file, never used
LogProcessorUnused ==
    /\ log_file = <<>>
    /\ logs = <<>>
    /\ loads = 0
    /\ log_last = NoLogCall

\* no BankAccount call made yet
NoBankCall == [op |-> "none", amount |-> 0, ret |-> "",
               balance |-> 0, transactions |-> <<>>]

\* a BankAccount with the default initial_balance, never used
BankAccountUnused ==
    /\ balance = 0
    /\ transactions = <<>>
    /\ bank_last = NoBankCall
    /\ accepted = <<>>
    /\ initial_balance = 0
    /\ bank_held = NoList

\* the books and the members of the library, as constructed
Books == {"Python Programming", "Data Science", "Machine Learning"}

Members == {"M001", "M002"}

None == "None"

NoLibraryCall == [op |-> "none", member |-> None, book |-> None, ret |-> "",
                  is_borrowed |-> [b \in Books |-> FALSE],
                  borrower |-> [b \in Books |-> None],
                  borrowed_books |-> [m \in Members |-> <<>>]]

\* Book.__init__ and LibraryMember.__init__: no book borrowed, no call made
LibraryUnused ==
    /\ is_borrowed = [b \in Books |-> FALSE]
    /\ borrower = [b \in Books |-> None]
    /\ borrowed_books = [m \in Members |-> <<>>]
    /\ lib_last = NoLibraryCall

\* the empty dict
EmptyDict == [k \in {} |-> NoValue]

NoProcessorCall == [op |-> "none", key |-> NoValue, value |-> NoValue,
                    ret |-> FALSE, escaped |-> "", data |-> EmptyDict]

\* DataProcessor.__init__, no call made
DataProcessorUnused ==
    /\ processor_data = EmptyDict
    /\ proc_last = NoProcessorCall
    /\ first_added = EmptyDict

\* a DatabaseConnection as __init__ leaves it, no with statement entered
ConnectionUnused ==
    /\ db_address = "localhost:5432"
    /\ connection = None
    /\ with_pc = "before_with"
    /\ pending = ""
    /\ body_raised = ""
    /\ events = <<>>
    /\ with_runs = 0

TableNames == {"employees", "products", "orders"}

NoRows == [t \in TableNames |-> {}]

\* empty tables, no transaction open
EmptyTables == [committed |-> NoRows, open |-> NoRows]

NoReport == [done |-> FALSE, escaped |-> "",
             successful_employees |-> 0,
             successful_products |-> 0,
             successful_orders |-> 0]

\* the tables as create_tables leaves them, insert_data_from_files not called
InsertUnused ==
    /\ csv_files = [t \in TableNames |-> <<>>]
    /\ tables = EmptyTables
    /\ report = NoReport

\* main not started, every required variable set
MainUnused ==
    /\ unset_vars = {}
    /\ main_pc = "cleanup_files"
    /\ main_connection = "unassigned"
    /\ main_pending = ""
    /\ db_steps = <<>>

InitValidator ==
    /\ InitEngine
    /\ held = NoList
    /\ twice = NoPair
    /\ registered = <<>>

Init ==
    /\ InitValidator
    /\ LogProcessorUnused
    /\ BankAccountUnused
    /\ LibraryUnused
    /\ DataProcessorUnused
    /\ ConnectionUnused
    /\ InsertUnused
    /\ MainUnused

\* variant: the rule is inserted at the front of the field's list
add_validation_rule_front(rules, field_name, rule_func, error_message) ==
    LET withKey == IF field_name \notin DOMAIN rules
                   THEN rules @@ (field_name :> <<>>)
                   ELSE rules
    IN  [withKey EXCEPT ![field_name] = <<<<rule_func, error_message>>>> \o @]

\* variant: the field's list is replaced by a list holding the new rule only
add_validation_rule_replace(rules, field_name, rule_func, error_message) ==
    LET withKey == IF field_name \notin DOMAIN rules
                   THEN rules @@ (field_name :> <<>>)
                   ELSE rules
    IN  [withKey EXCEPT ![field_name] = <<<<rule_func, error_message>>>>]

add_validation_rule(rules, field_name, rule_func, error_message) ==
    LET withKey == IF field_name \notin DOMAIN rules
                   THEN rules @@ (field_name :> <<>>)
                   ELSE rules
    IN  [withKey EXCEPT ![field_name] = Append(@, <<rule_func, error_message>>)]

AddRule(f, rule) ==
    /\ TotalRules < MaxRules
    /\ validation_rules' = add_validation_rule(validation_rules, f, rule[1], rule[2])
    /\ last' = Observe("add_validation_rule", f, NoValue, <<>>, NoResult, <<>>,
                       validation_errors)
    /\ UNCHANGED <<validation_errors, source, validated>>

AddValidationRule == \E f \in Fields, rule \in Rules : AddRule(f, rule)

ValidateField ==
    \E f \in Fields, v \in Values :
        /\ Len(validation_errors) < MaxLog
        /\ LET r == validate_field(validation_rules, validation_errors, f, v)
           IN  /\ validation_errors' = r.errors
               /\ last' = Observe("validate_field", f, v, <<>>,
                                  [r EXCEPT !.errors = <<>>] @@ [calls |-> <<>>],
                                  <<>>, validation_errors)
               /\ source' = Tag(source, Len(r.errors), "direct")
        /\ UNCHANGED <<validation_rules, validated>>

ValidateDataOn(data) ==
    /\ LET r == validate_data(validation_rules, validation_errors, data)
           kept == Len(Clear(validation_errors))
       IN  /\ validation_errors' = r.errors
           /\ last' = Observe("validate_data", "", NoValue, data,
                              [r EXCEPT !.errors = <<>>] @@ [evaluated |-> 0],
                              <<>>, Clear(validation_errors))
                      @@ [after |-> r.data]
           /\ source' = Tag([i \in 1..kept |-> "stale"], Len(r.errors), "validate")
    /\ validated' = TRUE
    /\ UNCHANGED validation_rules

ValidateData == \E data \in Records : ValidateDataOn(data)

GetErrors ==
    /\ last' = Observe("get_errors", "", NoValue, <<>>, NoResult,
                       get_errors(validation_errors), validation_errors)
    /\ UNCHANGED <<validation_rules, validation_errors, source, validated>>

Next ==
    \/ AddValidationRule /\ UNCHANGED callerVars /\ UNCHANGED otherVars
    \/ ValidateField /\ UNCHANGED callerVars /\ UNCHANGED otherVars
    \/ ValidateData /\ UNCHANGED callerVars /\ UNCHANGED otherVars
    \/ GetErrors /\ UNCHANGED callerVars /\ UNCHANGED otherVars

Spec == Init /\ [][Next]_vars

----------------------------------------------------------------------------
(* A caller that keeps the list get_errors returned and mutates it *)

\* the list object self.validation_errors
LogObject == "self.validation_errors"

\* variant: get_errors returns self.validation_errors itself
ReturnedObjectIsLog(obj) == obj

\* list.copy() returns a new list object, whatever object it is called on
ReturnedObject(obj) == "copy"

\* the entries of the list the caller holds
HeldItems == IF held.ref = LogObject THEN validation_errors ELSE held.items

\* get_errors, with the caller keeping what it returns
GetErrorsHeld ==
    /\ GetErrors
    /\ held' = [ref |-> ReturnedObject(LogObject),
                items |-> get_errors(validation_errors)]
    /\ UNCHANGED <<twice, registered>>

\* what append, clear and del list[0] make of a list
Mutations(items) ==
    {new \in {Append(items, "caller entry"), <<>>,
               IF items = <<>> THEN <<>> ELSE Tail(items)} :
        new # items /\ Len(new) <= MaxHeld}

\* the caller mutates the list it holds; a list that is self.validation_errors
\* changes with it
CallerMutates ==
    /\ held.ref # "none"
    /\ \E new \in Mutations(HeldItems) :
           /\ held' = [held EXCEPT !.items = new]
           /\ IF held.ref = LogObject
              THEN /\ validation_errors' = new
                   /\ source' = [i \in 1..Len(new) |-> "caller"]
              ELSE UNCHANGED <<validation_errors, source>>
    /\ last' = Observe("caller_mutation", "", NoValue, <<>>, NoResult, <<>>,
                       validation_errors)
    /\ UNCHANGED <<validation_rules, validated, twice, registered>>

NextCopy ==
    \/ TotalRules < MaxCopyRules /\ AddValidationRule /\ UNCHANGED callerVars /\ UNCHANGED otherVars
    \/ ValidateField /\ UNCHANGED callerVars /\ UNCHANGED otherVars
    \/ ValidateData /\ UNCHANGED callerVars /\ UNCHANGED otherVars
    \/ GetErrorsHeld /\ UNCHANGED otherVars
    \/ CallerMutates /\ UNCHANGED otherVars

SpecCopy == Init /\ [][NextCopy]_vars

----------------------------------------------------------------------------
(* A caller that validates the same record twice in a row *)

\* validate_data(data), get_errors(), validate_data(data), get_errors() with
\* nothing in between; twice keeps what each pair of calls gave
ValidateTwice ==
    \E data \in Records :
        LET r1 == validate_data(validation_rules, validation_errors, data)
            e1 == get_errors(r1.errors)
            r2 == validate_data(validation_rules, r1.errors, data)
            e2 == get_errors(r2.errors)
            kept == Len(Clear(r1.errors))
        IN  /\ validation_errors' = r2.errors
            /\ twice' = [ran |-> TRUE, data |-> data,
                         first |-> [ret |-> r1.ret, errors |-> e1],
                         second |-> [ret |-> r2.ret, errors |-> e2]]
            /\ last' = [Observe("validate_data", "", NoValue, data,
                                [r2 EXCEPT !.errors = <<>>] @@ [evaluated |-> 0],
                                <<>>, Clear(r1.errors))
                        EXCEPT !.dirty = r1.errors # <<>>] @@ [after |-> r2.data]
            /\ source' = Tag([i \in 1..kept |-> "stale"], Len(r2.errors), "validate")
            /\ validated' = TRUE
            /\ UNCHANGED <<validation_rules, held, registered>>

NextTwice ==
    \/ /\ TotalRules < MaxTwiceRules
       /\ AddValidationRule
       /\ twice' = NoPair
       /\ UNCHANGED <<held, registered>>
       /\ UNCHANGED otherVars
    \/ ValidateField /\ twice' = NoPair /\ UNCHANGED <<held, registered>> /\ UNCHANGED otherVars
    \/ ValidateTwice /\ UNCHANGED otherVars

SpecTwice == Init /\ [][NextTwice]_vars

----------------------------------------------------------------------------
(* Registration, with the calls made kept in order *)

AddValidationRuleLogged ==
    \E f \in Fields, rule \in Rules :
        /\ AddRule(f, rule)
        /\ registered' = Append(registered, <<f, rule>>)
        /\ UNCHANGED <<held, twice>>

NextAdd ==
    \/ AddValidationRuleLogged /\ UNCHANGED otherVars
    \/ ValidateField /\ UNCHANGED callerVars /\ UNCHANGED otherVars

SpecAdd == Init /\ [][NextAdd]_vars

----------------------------------------------------------------------------
(* Scenario: a type rule, then a range rule, on "age" with one message *)

AgeMessage == "Age must be an integer between 0 and 150"

\* the rules of the scenario, in registration order
AgeRules == <<<<"is_int", AgeMessage>>, <<"in_range", AgeMessage>>>>

\* the ages validated in the scenario
AgeValues == {IntValue(25), IntValue(200), StrValue("twenty")}

\* registers the scenario's next rule on "age"
AddAgeRule ==
    /\ Len(IF "age" \in DOMAIN validation_rules THEN validation_rules["age"] ELSE <<>>)
           < Len(AgeRules)
    /\ AddRule("age", AgeRules[Len(IF "age" \in DOMAIN validation_rules
                                   THEN validation_rules["age"] ELSE <<>>) + 1])

\* validate_data({"age": v})
ValidateAge == \E v \in AgeValues : ValidateDataOn(<<<<"age", v>>>>)

NextAge ==
    \/ AddAgeRule /\ UNCHANGED callerVars /\ UNCHANGED otherVars
    \/ ValidateAge /\ UNCHANGED callerVars /\ UNCHANGED otherVars
    \/ ValidateField /\ UNCHANGED callerVars /\ UNCHANGED otherVars
    \/ ValidateData /\ UNCHANGED callerVars /\ UNCHANGED otherVars
    \/ GetErrors /\ UNCHANGED callerVars /\ UNCHANGED otherVars

SpecAge == Init /\ [][NextAge]_vars

----------------------------------------------------------------------------
(* LogProcessor of 04_file_handling.py                                     *)
(*                                                                         *)
(* A str is the sequence of its symbols: " " is the space, "INFO", "ERROR" *)
(* and "WARNING" stand for those words written out, and "x" for any other  *)
(* character that is not whitespace.  A line of the file is kept without   *)
(* its line terminator, which strip() removes with the other whitespace.   *)

Space == " "

Levels == {"INFO", "ERROR", "WARNING"}

Symbols == {Space, "x"} \cup Levels

\* longest line made of arbitrary symbols
MaxLineLen == 3

\* most words after the date and the time of a line of words
MaxRestTokens == 3

\* most lines of a file of several lines
MaxFileLines == 3

\* most load_logs calls on one LogProcessor
MaxLoads == 2

SeqsUpTo(S, n) == UNION {[1..k -> S] : k \in 0..n}

\* " ".join(tokens)
RECURSIVE join(_)
join(tokens) ==
    IF tokens = <<>> THEN <<>>
    ELSE IF Len(tokens) = 1 THEN <<tokens[1]>>
    ELSE <<tokens[1], Space>> \o join(Tail(tokens))

\* a date, a time, and the words of rest, single spaces between
StampedLine(rest) == join(<<"x", "x">> \o rest)

Lines ==
    SeqsUpTo(Symbols, MaxLineLen)
        \cup {StampedLine(rest) : rest \in SeqsUpTo({"x"} \cup Levels, MaxRestTokens)}

\* lines of the files of several lines: empty, blank, one word, the layout
\* of the sample app.log, a level word between spaces after the time, and
\* one with whitespace around it
SampleLines ==
    { <<>>,
      <<Space>>,
      <<"x">>,
      StampedLine(<<"ERROR", "x">>),
      StampedLine(<<"x", "ERROR", "x">>),
      <<Space>> \o StampedLine(<<"x", "WARNING", "x">>) \o <<Space>> }

Files == {<<l>> : l \in Lines} \cup SeqsUpTo(SampleLines, MaxFileLines)

\* s.find(sub) + 1: position of the first occurrence of sub in s, 0 if none
find(s, sub) ==
    LET hits == {i \in 1..(Len(s) - Len(sub) + 1) :
                    SubSeq(s, i, i + Len(sub) - 1) = sub}
    IN  IF hits = {} THEN 0 ELSE CHOOSE i \in hits : \A j \in hits : i <= j

\* sub in s
Contains(s, sub) == find(s, sub) # 0

\* s.split(sep, maxsplit)
RECURSIVE split(_, _, _)
split(s, sep, maxsplit) ==
    LET i == find(s, sep)
    IN  IF maxsplit = 0 \/ i = 0
        THEN <<s>>
        ELSE <<SubSeq(s, 1, i - 1)>>
                \o split(SubSeq(s, i + Len(sep), Len(s)), sep, maxsplit - 1)

\* s.strip()
RECURSIVE strip(_)
strip(s) ==
    IF s = <<>> THEN s
    ELSE IF Head(s) = Space THEN strip(Tail(s))
    ELSE IF s[Len(s)] = Space THEN strip(SubSeq(s, 1, Len(s) - 1))
    ELSE s

NoRecord == [timestamp |-> <<>>, level |-> "", message |-> <<>>]

\* the if/elif chain over remaining
LevelAndMessage(remaining) ==
    IF Contains(remaining, <<Space, "INFO", Space>>)
    THEN [level |-> "INFO",
          message |-> split(remaining, <<Space, "INFO", Space>>, 1)[2]]
    ELSE IF Contains(remaining, <<Space, "ERROR", Space>>)
    THEN [level |-> "ERROR",
          message |-> split(remaining, <<Space, "ERROR", Space>>, 1)[2]]
    ELSE IF Contains(remaining, <<Space, "WARNING", Space>>)
    THEN [level |-> "WARNING",
          message |-> split(remaining, <<Space, "WARNING", Space>>, 1)[2]]
    ELSE [level |-> "UNKNOWN", message |-> remaining]

\* the body of the try: parts[1] and parts[2] raise IndexError on a short list
ParseTry(line) ==
    LET parts == split(line, <<Space>>, 2)
    IN  IF Len(parts) < 2
        THEN [escaped |-> "IndexError", value |-> NoRecord]
        ELSE IF Len(parts) < 3
        THEN [escaped |-> "IndexError", value |-> NoRecord]
        ELSE LET timestamp == parts[1] \o <<Space>> \o parts[2]
                 remaining == parts[3]
                 lm        == LevelAndMessage(remaining)
             IN  [escaped |-> "",
                  value   |-> [timestamp |-> timestamp,
                               level     |-> lm.level,
                               message   |-> lm.message]]

\* variant: no try/except around the body
parse_log_entry_unguarded(line) == ParseTry(line)

parse_log_entry(line) ==
    LET r == ParseTry(line)
    IN  IF r.escaped # ""
        THEN [escaped |-> "",
              value   |-> [timestamp |-> <<>>, level |-> "PARSE_ERROR",
                           message |-> line]]
        ELSE r

\* the for loop of load_logs from the k-th line on
RECURSIVE LoadLoop(_, _, _)
LoadLoop(file, k, acc) ==
    IF k > Len(file)
    THEN [logs |-> acc, escaped |-> ""]
    ELSE LET line == strip(file[k])
         IN  IF line = <<>>
             THEN LoadLoop(file, k + 1, acc)
             ELSE LET r == parse_log_entry(line)
                  IN  IF r.escaped # ""
                      THEN [logs |-> acc, escaped |-> r.escaped]
                      ELSE LoadLoop(file, k + 1, Append(acc, r.value))

load_logs(self_logs, file) == LoadLoop(file, 1, self_logs)

get_logs_by_level(self_logs, level) ==
    SelectSeq(self_logs, LAMBDA log : log.level = level)

get_error_count(self_logs) == Len(get_logs_by_level(self_logs, "ERROR"))

get_warning_count(self_logs) == Len(get_logs_by_level(self_logs, "WARNING"))

\* a LogProcessor just constructed on one of the files
InitLog ==
    /\ InitValidator
    /\ BankAccountUnused
    /\ LibraryUnused
    /\ log_file \in Files
    /\ logs = <<>>
    /\ loads = 0
    /\ log_last = NoLogCall
    /\ DataProcessorUnused
    /\ ConnectionUnused
    /\ InsertUnused
    /\ MainUnused

\* parse_log_entry called on a line of the file as it stands
ParseLogEntry ==
    \E k \in 1..Len(log_file) :
        LET r == parse_log_entry(log_file[k])
        IN  /\ log_last' = [NoLogCall EXCEPT !.op = "parse_log_entry",
                                             !.line = log_file[k],
                                             !.escaped = r.escaped,
                                             !.value = r.value]
            /\ UNCHANGED <<log_file, logs, loads>>

LoadLogs ==
    /\ loads < MaxLoads
    /\ LET r == load_logs(logs, log_file)
       IN  /\ logs' = r.logs
           /\ loads' = loads + 1
           /\ log_last' = [NoLogCall EXCEPT !.op = "load_logs",
                                            !.escaped = r.escaped]
    /\ UNCHANGED log_file

GetErrorCount ==
    /\ log_last' = [NoLogCall EXCEPT !.op = "get_error_count",
                                     !.count = get_error_count(logs)]
    /\ UNCHANGED <<log_file, logs, loads>>

GetWarningCount ==
    /\ log_last' = [NoLogCall EXCEPT !.op = "get_warning_count",
                                     !.count = get_warning_count(logs)]
    /\ UNCHANGED <<log_file, logs, loads>>

NextLog ==
    \/ ParseLogEntry /\ UNCHANGED notLogVars
    \/ LoadLogs /\ UNCHANGED notLogVars
    \/ GetErrorCount /\ UNCHANGED notLogVars
    \/ GetWarningCount /\ UNCHANGED notLogVars

SpecLog == InitLog /\ [][NextLog]_vars

----------------------------------------------------------------------------
(* BankAccount of 03_object_oriented_programming.py                        *)
(*                                                                         *)
(* Amounts and balances are integers, as in the calls of the source.       *)

\* most accepted operations on one account
MaxTx == 3

InitialBalances == {-1, 0, 2}

Amounts == {-1, 0, 1, 2, 3}

\* f"{n:.2f}" for an integer n
Format2f(n) == ToString(n) \o ".00"

\* variant: zero is a valid deposit
deposit_nonnegative(self_balance, self_transactions, amount) ==
    IF amount >= 0
    THEN [balance      |-> self_balance + amount,
          transactions |-> Append(self_transactions,
                                  "Deposit: +$" \o Format2f(amount)),
          ret          |-> "Deposited $" \o Format2f(amount)
                               \o ". New balance: $"
                               \o Format2f(self_balance + amount)]
    ELSE [balance      |-> self_balance,
          transactions |-> self_transactions,
          ret          |-> "Invalid deposit amount"]

deposit(self_balance, self_transactions, amount) ==
    IF amount > 0
    THEN [balance      |-> self_balance + amount,
          transactions |-> Append(self_transactions,
                                  "Deposit: +$" \o Format2f(amount)),
          ret          |-> "Deposited $" \o Format2f(amount)
                               \o ". New balance: $"
                               \o Format2f(self_balance + amount)]
    ELSE [balance      |-> self_balance,
          transactions |-> self_transactions,
          ret          |-> "Invalid deposit amount"]

\* variant: the balance is not compared with the amount
withdraw_any(self_balance, self_transactions, amount) ==
    IF amount > 0
    THEN [balance      |-> self_balance - amount,
          transactions |-> Append(self_transactions,
                                  "Withdrawal: -$" \o Format2f(amount)),
          ret          |-> "Withdrew $" \o Format2f(amount)
                               \o ". New balance: $"
                               \o Format2f(self_balance - amount)]
    ELSE [balance      |-> self_balance,
          transactions |-> self_transactions,
          ret          |-> "Invalid withdrawal amount or insufficient funds"]

withdraw(self_balance, self_transactions, amount) ==
    IF amount > 0 /\ amount <= self_balance
    THEN [balance      |-> self_balance - amount,
          transactions |-> Append(self_transactions,
                                  "Withdrawal: -$" \o Format2f(amount)),
          ret          |-> "Withdrew $" \o Format2f(amount)
                               \o ". New balance: $"
                               \o Format2f(self_balance - amount)]
    ELSE [balance      |-> self_balance,
          transactions |-> self_transactions,
          ret          |-> "Invalid withdrawal amount or insufficient funds"]

RejectionMessages ==
    {"Invalid deposit amount", "Invalid withdrawal amount or insufficient funds"}

\* a BankAccount just constructed with one of the initial balances
InitBank ==
    /\ InitValidator
    /\ LogProcessorUnused
    /\ LibraryUnused
    /\ initial_balance \in InitialBalances
    /\ balance = initial_balance
    /\ transactions = <<>>
    /\ bank_last = NoBankCall
    /\ accepted = <<>>
    /\ bank_held = NoList
    /\ DataProcessorUnused
    /\ ConnectionUnused
    /\ InsertUnused
    /\ MainUnused

\* the call, what it returned, and the account as it was before the call;
\* accepted gains the call when the answer is not a rejection message
BankCall(op, amount, r) ==
    /\ balance' = r.balance
    /\ transactions' = r.transactions
    /\ bank_last' = [op |-> op, amount |-> amount, ret |-> r.ret,
                     balance |-> balance, transactions |-> transactions]
    /\ accepted' = IF r.ret \in RejectionMessages
                   THEN accepted
                   ELSE Append(accepted, <<op, amount>>)

Deposit ==
    \E amount \in Amounts :
        /\ Len(accepted) < MaxTx
        /\ BankCall("deposit", amount, deposit(balance, transactions, amount))

Withdraw ==
    \E amount \in Amounts :
        /\ Len(accepted) < MaxTx
        /\ BankCall("withdraw", amount, withdraw(balance, transactions, amount))

\* the list object self._transactions
TransactionsObject == "self._transactions"

\* variant: the property returns self._transactions itself
transactions_aliased(obj) == obj

\* the transactions property: self._transactions.copy()
transactions_property(obj) == ReturnedObject(obj)

\* the dict get_statement builds; its list is the object named by
\* transactions, holding the entries of self._transactions
get_statement(self_balance, obj) ==
    [account_holder |-> "Frank",
     balance        |-> self_balance,
     transactions   |-> ReturnedObject(obj)]

\* the entries of the list the caller holds
BankHeldItems ==
    IF bank_held.ref = TransactionsObject THEN transactions ELSE bank_held.items

\* a call that reads the account: nothing of the account is assigned
BankRead(op) ==
    /\ bank_last' = [op |-> op, amount |-> 0, ret |-> "",
                     balance |-> balance, transactions |-> transactions]
    /\ UNCHANGED <<balance, transactions, accepted, initial_balance>>

\* account.transactions, with the caller keeping the list
GetTransactions ==
    /\ bank_held' = [ref   |-> transactions_property(TransactionsObject),
                     items |-> transactions]
    /\ BankRead("transactions")

\* account.get_statement(), with the caller keeping the list of the dict
GetStatement ==
    /\ bank_held' = [ref   |-> get_statement(balance, TransactionsObject).transactions,
                     items |-> transactions]
    /\ BankRead("get_statement")

\* the caller mutates the list it holds; a list that is self._transactions
\* changes with it
CallerMutatesBank ==
    /\ bank_held.ref # "none"
    /\ \E new \in Mutations(BankHeldItems) :
           /\ bank_held' = [bank_held EXCEPT !.items = new]
           /\ transactions' = IF bank_held.ref = TransactionsObject
                              THEN new
                              ELSE transactions
    /\ bank_last' = [op |-> "caller_mutation", amount |-> 0, ret |-> "",
                     balance |-> balance, transactions |-> transactions]
    /\ UNCHANGED <<balance, accepted, initial_balance>>

NextBank ==
    \/ Deposit /\ UNCHANGED <<initial_balance, bank_held>> /\ UNCHANGED notBankVars
    \/ Withdraw /\ UNCHANGED <<initial_balance, bank_held>> /\ UNCHANGED notBankVars
    \/ GetTransactions /\ UNCHANGED notBankVars
    \/ GetStatement /\ UNCHANGED notBankVars
    \/ CallerMutatesBank /\ UNCHANGED notBankVars

SpecBank == InitBank /\ [][NextBank]_vars

----------------------------------------------------------------------------
(* Book and LibraryMember of 03_object_oriented_programming.py             *)
(*                                                                         *)
(* A Book is named by its title and a LibraryMember by its member_id; Book *)
(* defines no __eq__, so "book in list" and list.remove compare identity.  *)

\* list.remove(x): the list without the first occurrence of x
remove(list, x) ==
    LET i == CHOOSE i \in 1..Len(list) :
                 list[i] = x /\ \A j \in 1..(i - 1) : list[j] # x
    IN  SubSeq(list, 1, i - 1) \o SubSeq(list, i + 1, Len(list))

\* x in list
In(x, list) == \E i \in 1..Len(list) : list[i] = x

borrow_book(self, book, st) ==
    IF ~st.is_borrowed[book]
    THEN [is_borrowed    |-> [st.is_borrowed EXCEPT ![book] = TRUE],
          borrower       |-> [st.borrower EXCEPT ![book] = self],
          borrowed_books |-> [st.borrowed_books EXCEPT ![self] = Append(@, book)],
          ret            |-> "Successfully borrowed '" \o book \o "'"]
    ELSE [is_borrowed    |-> st.is_borrowed,
          borrower       |-> st.borrower,
          borrowed_books |-> st.borrowed_books,
          ret            |-> "'" \o book \o "' is already borrowed"]

\* variant: the test is on the book's flag, not on the member's list
return_book_if_borrowed(self, book, st) ==
    IF st.is_borrowed[book]
    THEN [is_borrowed    |-> [st.is_borrowed EXCEPT ![book] = FALSE],
          borrower       |-> [st.borrower EXCEPT ![book] = None],
          borrowed_books |-> [st.borrowed_books EXCEPT ![self] =
                                 IF In(book, @) THEN remove(@, book) ELSE @],
          ret            |-> "Successfully returned '" \o book \o "'"]
    ELSE [is_borrowed    |-> st.is_borrowed,
          borrower       |-> st.borrower,
          borrowed_books |-> st.borrowed_books,
          ret            |-> "You haven't borrowed '" \o book \o "'"]

return_book(self, book, st) ==
    IF In(book, st.borrowed_books[self])
    THEN [is_borrowed    |-> [st.is_borrowed EXCEPT ![book] = FALSE],
          borrower       |-> [st.borrower EXCEPT ![book] = None],
          borrowed_books |-> [st.borrowed_books EXCEPT ![self] = remove(@, book)],
          ret            |-> "Successfully returned '" \o book \o "'"]
    ELSE [is_borrowed    |-> st.is_borrowed,
          borrower       |-> st.borrower,
          borrowed_books |-> st.borrowed_books,
          ret            |-> "You haven't borrowed '" \o book \o "'"]

\* the fields of the books and the members
LibraryState ==
    [is_borrowed |-> is_borrowed, borrower |-> borrower,
     borrowed_books |-> borrowed_books]

\* the call, its answer, and the fields as they were before it
LibraryCall(op, self, book, r) ==
    /\ is_borrowed' = r.is_borrowed
    /\ borrower' = r.borrower
    /\ borrowed_books' = r.borrowed_books
    /\ lib_last' = [op |-> op, member |-> self, book |-> book, ret |-> r.ret,
                    is_borrowed |-> is_borrowed, borrower |-> borrower,
                    borrowed_books |-> borrowed_books]

BorrowBook ==
    \E self \in Members, book \in Books :
        LibraryCall("borrow_book", self, book, borrow_book(self, book, LibraryState))

ReturnBook ==
    \E self \in Members, book \in Books :
        LibraryCall("return_book", self, book, return_book(self, book, LibraryState))

InitLibrary ==
    /\ InitValidator
    /\ LogProcessorUnused
    /\ BankAccountUnused
    /\ LibraryUnused
    /\ DataProcessorUnused
    /\ ConnectionUnused
    /\ InsertUnused
    /\ MainUnused

NextLibrary ==
    \/ BorrowBook /\ UNCHANGED notLibraryVars
    \/ ReturnBook /\ UNCHANGED notLibraryVars

SpecLibrary == InitLibrary /\ [][NextLibrary]_vars

----------------------------------------------------------------------------
(* DataProcessor of 05_exception_handling.py *)

ProcessorKeys ==
    {StrValue("name"), StrValue("age"), StrValue("city"), IntValue(123)}

ProcessorValues == {StrValue("Alice"), StrValue("Bob"), IntValue(25)}

\* isinstance(key, str)
IsStr(key) == key.type = "str"

\* the body of the try of add_item: the exception it raises, or the dict
\* after the assignment
AddItemTry(self_data, key, value) ==
    IF ~IsStr(key)
    THEN [raised |-> "TypeError", data |-> self_data]
    ELSE IF key \in DOMAIN self_data
    THEN [raised |-> "KeyError", data |-> self_data]
    ELSE [raised |-> "", data |-> (key :> value) @@ self_data]

\* variant: a key already present is assigned again
add_item_overwrite(self_data, key, value) ==
    IF ~IsStr(key)
    THEN [ret |-> FALSE, escaped |-> "", data |-> self_data]
    ELSE [ret |-> TRUE, escaped |-> "",
          data |-> (key :> value) @@ self_data]

\* except (TypeError, KeyError) and except Exception both return False
add_item(self_data, key, value) ==
    LET r == AddItemTry(self_data, key, value)
    IN  IF r.raised = ""
        THEN [ret |-> TRUE, escaped |-> "", data |-> r.data]
        ELSE IF r.raised \in {"TypeError", "KeyError"}
        THEN [ret |-> FALSE, escaped |-> "", data |-> r.data]
        ELSE [ret |-> FALSE, escaped |-> "", data |-> r.data]

InitProcessor ==
    /\ InitValidator
    /\ LogProcessorUnused
    /\ BankAccountUnused
    /\ LibraryUnused
    /\ DataProcessorUnused
    /\ ConnectionUnused
    /\ InsertUnused
    /\ MainUnused

AddItem ==
    \E key \in ProcessorKeys, value \in ProcessorValues :
        LET r == add_item(processor_data, key, value)
        IN  /\ processor_data' = r.data
            /\ proc_last' = [op |-> "add_item", key |-> key, value |-> value,
                             ret |-> r.ret, escaped |-> r.escaped,
                             data |-> processor_data]
            /\ first_added' = IF r.ret /\ key \notin DOMAIN first_added
                              THEN (key :> value) @@ first_added
                              ELSE first_added

\* get_item: self.data[key], or None after a KeyError; nothing is assigned
GetItem ==
    \E key \in {k \in ProcessorKeys : IsStr(k)} :
        /\ proc_last' = [op |-> "get_item", key |-> key,
                         value |-> IF key \in DOMAIN processor_data
                                   THEN processor_data[key]
                                   ELSE NoValue,
                         ret |-> key \in DOMAIN processor_data,
                         escaped |-> "", data |-> processor_data]
        /\ UNCHANGED <<processor_data, first_added>>

NextProcessor ==
    \/ AddItem /\ UNCHANGED notProcessorVars
    \/ GetItem /\ UNCHANGED notProcessorVars

SpecProcessor == InitProcessor /\ [][NextProcessor]_vars

----------------------------------------------------------------------------
(* DatabaseConnection of 05_exception_handling.py, used in a with          *)
(* statement inside try / except ValueError                                *)

\* most with statements entered on one object
MaxRuns == 2

\* most uses of db.connection in one body
MaxBodyUses == 2

Addresses == {"localhost:5432", "replica:5433"}

\* what a body can raise: ValueError, a subclass of it, another Exception,
\* and a BaseException that is not an Exception
BodyExceptions == {"ValueError", "UnicodeError", "KeyError", "KeyboardInterrupt"}

\* the classes `except ValueError` catches
ValueErrors == {"ValueError", "UnicodeError"}

__enter__(address) == "Connection to " \o address

\* variant: __exit__ returns True
exit_suppresses(self_connection, exc_type) == [connection |-> None, ret |-> TRUE]

\* self.connection after __exit__ and the value __exit__ returns
__exit__(self_connection, exc_type) == [connection |-> None, ret |-> FALSE]

InitConnection ==
    /\ InitValidator
    /\ LogProcessorUnused
    /\ BankAccountUnused
    /\ LibraryUnused
    /\ DataProcessorUnused
    /\ MainUnused
    /\ InsertUnused
    /\ db_address \in Addresses
    /\ connection = None
    /\ with_pc = "before_with"
    /\ pending = ""
    /\ body_raised = ""
    /\ events = <<>>
    /\ with_runs = 0

\* the with statement calls __enter__ and starts the body
Enter ==
    /\ with_pc = "before_with"
    /\ with_runs < MaxRuns
    /\ connection' = __enter__(db_address)
    /\ with_pc' = "body"
    /\ events' = <<"enter">>
    /\ with_runs' = with_runs + 1
    /\ pending' = ""
    /\ body_raised' = ""
    /\ UNCHANGED db_address

\* the body reads db.connection
BodyUses ==
    /\ with_pc = "body"
    /\ Len(events) <= MaxBodyUses
    /\ events' = Append(events, "use")
    /\ UNCHANGED <<db_address, connection, with_pc, pending, body_raised, with_runs>>

\* the body raises
BodyRaises ==
    /\ with_pc = "body"
    /\ \E e \in BodyExceptions :
           /\ pending' = e
           /\ body_raised' = e
    /\ with_pc' = "exiting"
    /\ events' = Append(events, "raise")
    /\ UNCHANGED <<db_address, connection, with_runs>>

\* the body runs to its end
BodyCompletes ==
    /\ with_pc = "body"
    /\ with_pc' = "exiting"
    /\ events' = Append(events, "end")
    /\ UNCHANGED <<db_address, connection, pending, body_raised, with_runs>>

\* the with statement calls __exit__ with the exception in flight, if any,
\* and re-raises it unless __exit__ returned a true value
Exit ==
    /\ with_pc = "exiting"
    /\ LET r == __exit__(connection, pending)
       IN  /\ connection' = r.connection
           /\ pending' = IF r.ret THEN "" ELSE pending
           /\ with_pc' = IF pending # "" /\ ~r.ret THEN "raising" ELSE "after_with"
    /\ events' = Append(events, "exit")
    /\ UNCHANGED <<db_address, body_raised, with_runs>>

\* the exception leaves the with statement: except ValueError catches it,
\* or it goes on to the caller's caller
Propagate ==
    /\ with_pc = "raising"
    /\ with_pc' = IF pending \in ValueErrors THEN "caught" ELSE "escaped"
    /\ events' = Append(events, "propagate")
    /\ UNCHANGED <<db_address, connection, pending, body_raised, with_runs>>

\* the caller goes on to another with statement on the same object
Again ==
    /\ with_pc \in {"after_with", "caught"}
    /\ with_runs < MaxRuns
    /\ with_pc' = "before_with"
    /\ UNCHANGED <<db_address, connection, pending, body_raised, events, with_runs>>

NextConnection ==
    \/ Enter /\ UNCHANGED notConnectionVars
    \/ BodyUses /\ UNCHANGED notConnectionVars
    \/ BodyRaises /\ UNCHANGED notConnectionVars
    \/ BodyCompletes /\ UNCHANGED notConnectionVars
    \/ Exit /\ UNCHANGED notConnectionVars
    \/ Propagate /\ UNCHANGED notConnectionVars
    \/ Again /\ UNCHANGED notConnectionVars

SpecConnection == InitConnection /\ [][NextConnection]_vars

----------------------------------------------------------------------------
(* insert_data_from_files of 06_sql_practice.py                            *)
(*                                                                         *)
(* The connection is the one get_db_connection returns, with autocommit    *)
(* off: the statements executed since the last commit or rollback form one *)
(* transaction, commit makes them durable and rollback discards them all.  *)

\* most rows of a csv file
MaxRows == 2

\* a row of a csv file: its id, what is wrong with it if anything, and for
\* an order the employee and the product it refers to
Row(id, kind, employee_id, product_id) ==
    [id |-> id, kind |-> kind, employee_id |-> employee_id,
     product_id |-> product_id]

\* employees: two good rows, one with a negative age, one whose age is not
\* a number
EmployeeRows ==
    {Row(1, "ok", 0, 0), Row(2, "ok", 0, 0), Row(1, "check", 0, 0),
     Row(2, "not_a_number", 0, 0)}

\* products: a good row and one whose price is not a number
ProductRows == {Row(1, "ok", 0, 0), Row(1, "data", 0, 0)}

OrderRows == {Row(1, "ok", 1, 1), Row(2, "ok", 2, 1)}

CsvFiles ==
    [employees : SeqsUpTo(EmployeeRows, MaxRows),
     products  : SeqsUpTo(ProductRows, MaxRows),
     orders    : SeqsUpTo(OrderRows, MaxRows)]

\* the ids a statement of the open transaction sees in a table
Visible(db, t) == db.committed[t] \cup db.open[t]

\* connection.commit()
commit(db) ==
    [committed |-> [t \in TableNames |-> Visible(db, t)], open |-> NoRows]

\* connection.rollback()
rollback(db) == [committed |-> db.committed, open |-> NoRows]

\* TRUNCATE TABLE orders, products, employees
truncate(db) == [committed |-> NoRows, open |-> NoRows]

\* what cursor.execute of the INSERT raises for the row, "" if nothing:
\* DataError for a value of the wrong type, IntegrityError for a duplicate
\* key, a failed CHECK or a missing referenced row
ExecuteInsert(db, t, row) ==
    IF row.kind = "data" THEN "DataError"
    ELSE IF row.id \in Visible(db, t) THEN "IntegrityError"
    ELSE IF row.kind = "check" THEN "IntegrityError"
    ELSE IF t = "orders"
            /\ (row.employee_id \notin Visible(db, "employees")
                \/ row.product_id \notin Visible(db, "products"))
    THEN "IntegrityError"
    ELSE ""

\* the for loop over the rows of one file, from the k-th row on; int() and
\* float() of the employees loop raise ValueError, which no except clause of
\* the function names
RECURSIVE RowLoop(_, _, _, _, _)
RowLoop(t, rows, k, db, successful) ==
    IF k > Len(rows)
    THEN [db |-> db, successful |-> successful, escaped |-> ""]
    ELSE IF t = "employees" /\ rows[k].kind = "not_a_number"
    THEN [db |-> db, successful |-> successful, escaped |-> "ValueError"]
    ELSE LET e == ExecuteInsert(db, t, rows[k])
         IN  IF e = ""
             THEN RowLoop(t, rows, k + 1,
                          [db EXCEPT !.open[t] = @ \cup {rows[k].id}],
                          successful + 1)
             ELSE RowLoop(t, rows, k + 1, rollback(db), successful)

\* one file: the loop, then connection.commit() and the print of the count
InsertFile(t, rows, db) ==
    LET r == RowLoop(t, rows, 1, db, 0)
    IN  IF r.escaped # "" THEN r ELSE [r EXCEPT !.db = commit(r.db)]

insert_data_from_files(db, files) ==
    LET cleared == commit(truncate(db))
        e == InsertFile("employees", files.employees, cleared)
        p == InsertFile("products", files.products, e.db)
        o == InsertFile("orders", files.orders, p.db)
    IN  IF e.escaped # ""
        THEN [db |-> e.db,
              report |-> [NoReport EXCEPT !.done = TRUE, !.escaped = e.escaped]]
        ELSE [db |-> o.db,
              report |-> [done |-> TRUE, escaped |-> "",
                          successful_employees |-> e.successful,
                          successful_products |-> p.successful,
                          successful_orders |-> o.successful]]

InitInsert ==
    /\ InitValidator
    /\ LogProcessorUnused
    /\ BankAccountUnused
    /\ LibraryUnused
    /\ DataProcessorUnused
    /\ MainUnused
    /\ ConnectionUnused
    /\ csv_files \in CsvFiles
    /\ tables = EmptyTables
    /\ report = NoReport

InsertDataFromFiles ==
    /\ ~report.done
    /\ LET r == insert_data_from_files(tables, csv_files)
       IN  /\ tables' = r.db
           /\ report' = r.report
    /\ UNCHANGED csv_files

NextInsert ==
    \/ InsertDataFromFiles /\ UNCHANGED notInsertVars

SpecInsert == InitInsert /\ [][NextInsert]_vars

----------------------------------------------------------------------------
(* main of 06_sql_practice.py                                              *)
(*                                                                         *)
(* main_pc names the statement about to run.  A callee ends in one of      *)
(* three ways: it returns, it raises a psycopg2 Error, or it raises an     *)
(* exception that is not a psycopg2 Error.                                 *)

RequiredVars == {"DB_HOST", "DB_PORT", "DB_NAME", "DB_USER", "DB_PASSWORD"}

Outcomes == {"returns", "Error", "other"}

\* validate_environment: True iff no required variable is missing
validate_environment(unset) ==
    LET missing_vars == {v \in RequiredVars : v \in unset}
    IN  missing_vars = {}

\* variant: the connection is closed only when no exception is in flight
finally_on_success(conn, exc) ==
    IF conn = "open" /\ exc = "" THEN "closed" ELSE conn

\* the finally clause: `connection` after it; an unassigned local and None
\* fail the test `'connection' in locals() and connection`
finally_clause(conn, exc) ==
    IF conn # "unassigned" /\ conn # None THEN "closed" ELSE conn

InitMain ==
    /\ InitValidator
    /\ LogProcessorUnused
    /\ BankAccountUnused
    /\ LibraryUnused
    /\ DataProcessorUnused
    /\ ConnectionUnused
    /\ InsertUnused
    /\ unset_vars \in SUBSET RequiredVars
    /\ main_pc = "cleanup_files"
    /\ main_connection = "unassigned"
    /\ main_pending = ""
    /\ db_steps = <<>>

\* a statement of the try block that calls callee; it is given the
\* connection iff uses_connection.  On "returns" main goes on to next, a
\* raised exception goes to the except clause that names it or, if none
\* does, to the finally clause
TryStatement(here, callee, uses_connection, next) ==
    /\ main_pc = here
    /\ \E outcome \in Outcomes :
           /\ outcome = "Error" => uses_connection
           /\ main_pc' = CASE outcome = "returns" -> next
                            [] outcome = "Error"   -> "except_Error"
                            [] OTHER               -> "finally"
           /\ main_pending' = IF outcome = "returns" THEN "" ELSE outcome
    /\ db_steps' = IF uses_connection THEN Append(db_steps, callee) ELSE db_steps
    /\ UNCHANGED <<unset_vars, main_connection>>

\* cleanup_files() before the try: an exception here leaves main at once
CleanupFilesFirst ==
    /\ main_pc = "cleanup_files"
    /\ \E outcome \in {"returns", "other"} :
           /\ main_pc' = IF outcome = "returns" THEN "validate_environment" ELSE "ended"
           /\ main_pending' = IF outcome = "returns" THEN "" ELSE outcome
    /\ UNCHANGED <<unset_vars, main_connection, db_steps>>

\* if not validate_environment(): return
ValidateEnvironment ==
    /\ main_pc = "validate_environment"
    /\ main_pc' = IF validate_environment(unset_vars)
                  THEN "create_database_if_not_exists"
                  ELSE "finally"
    /\ UNCHANGED <<unset_vars, main_connection, main_pending, db_steps>>

\* connection = create_database_if_not_exists(); if not connection: return.
\* The callee returns a connection or, after catching an Error, None; an
\* exception of another kind leaves `connection` unassigned
CreateDatabaseIfNotExists ==
    /\ main_pc = "create_database_if_not_exists"
    /\ \E result \in {"open", None, "other"} :
           /\ main_connection' = IF result = "other" THEN main_connection ELSE result
           /\ main_pc' = IF result = "open" THEN "create_tables" ELSE "finally"
           /\ main_pending' = IF result = "other" THEN "other" ELSE ""
    /\ UNCHANGED <<unset_vars, db_steps>>

CreateTables ==
    TryStatement("create_tables", "create_tables", TRUE, "create_sample_data_files")

CreateSampleDataFiles ==
    TryStatement("create_sample_data_files", "create_sample_data_files", FALSE,
                 "insert_data_with_upsert")

InsertDataWithUpsert ==
    TryStatement("insert_data_with_upsert", "insert_data_with_upsert", TRUE,
                 "verify_data_insertion")

\* if not verify_data_insertion(connection): return
VerifyDataInsertion ==
    \/ TryStatement("verify_data_insertion", "verify_data_insertion", TRUE,
                    "demonstrate_sql_queries")
    \/ /\ main_pc = "verify_data_insertion"
       /\ main_pc' = "finally"
       /\ db_steps' = Append(db_steps, "verify_data_insertion")
       /\ UNCHANGED <<unset_vars, main_connection, main_pending>>

DemonstrateSqlQueries ==
    TryStatement("demonstrate_sql_queries", "demonstrate_sql_queries", TRUE,
                 "cleanup_files_last")

CleanupFilesLast ==
    TryStatement("cleanup_files_last", "cleanup_files", FALSE, "finally")

\* except Error as e: print
ExceptError ==
    /\ main_pc = "except_Error"
    /\ main_pending' = ""
    /\ main_pc' = "finally"
    /\ UNCHANGED <<unset_vars, main_connection, db_steps>>

\* the finally clause, after which main ends: by return, by falling off the
\* end, or with the exception still in flight
Finally ==
    /\ main_pc = "finally"
    /\ main_connection' = finally_clause(main_connection, main_pending)
    /\ main_pc' = "ended"
    /\ UNCHANGED <<unset_vars, main_pending, db_steps>>

NextMain ==
    \/ CleanupFilesFirst /\ UNCHANGED notMainVars
    \/ ValidateEnvironment /\ UNCHANGED notMainVars
    \/ CreateDatabaseIfNotExists /\ UNCHANGED notMainVars
    \/ CreateTables /\ UNCHANGED notMainVars
    \/ CreateSampleDataFiles /\ UNCHANGED notMainVars
    \/ InsertDataWithUpsert /\ UNCHANGED notMainVars
    \/ VerifyDataInsertion /\ UNCHANGED notMainVars
    \/ DemonstrateSqlQueries /\ UNCHANGED notMainVars
    \/ CleanupFilesLast /\ UNCHANGED notMainVars
    \/ ExceptError /\ UNCHANGED notMainVars
    \/ Finally /\ UNCHANGED notMainVars

SpecMain == InitMain /\ [][NextMain]_vars

----------------------------------------------------------------------------
(* Vocabulary of the properties, defined from the predicates alone *)

\* the rules registered for a field, none when the field is no key
RuleSetOf(f) == IF f \in DOMAIN validation_rules THEN validation_rules[f] ELSE <<>>

\* the rule's predicate returns true on v without raising
Passes(rule, v) == LET out == Call(rule[1], v) IN ~out.raised /\ out.ret

\* the rule's predicate raises on v
Faults(rule, v) == Call(rule[1], v).raised

\* index of the first rule of the field that does not pass on v, 0 when all pass
FirstBad(f, v) ==
    LET rs == RuleSetOf(f)
        bad == {i \in 1..Len(rs) : ~Passes(rs[i], v)}
    IN  IF bad = {} THEN 0 ELSE CHOOSE i \in bad : \A j \in bad : i <= j

FieldFails(f, v) == FirstBad(f, v) # 0

\* the message the spec gives for a rule that returned false
RuleMessage(f, rule) == f \o ": " \o rule[2]

\* the description of the fault the rule's predicate raises on v
FaultDescription(rule, v) == Call(rule[1], v).exc.str

Range(seq) == {seq[i] : i \in DOMAIN seq}

IsFieldCall == last.op = "validate_field"
IsDataCall == last.op = "validate_data"

----------------------------------------------------------------------------
(* validate_field: faults and failing rules *)

\* the last call was validate_field and the first rule that did not pass raised
FieldCallFaulted ==
    /\ IsFieldCall
    /\ FieldFails(last.field_name, last.value)
    /\ Faults(RuleSetOf(last.field_name)[FirstBad(last.field_name, last.value)], last.value)

\* the last call was validate_field and the first rule that did not pass returned false
FieldCallRuleFalse ==
    /\ IsFieldCall
    /\ FieldFails(last.field_name, last.value)
    /\ ~Faults(RuleSetOf(last.field_name)[FirstBad(last.field_name, last.value)], last.value)

\* C1: when a rule's predicate raises in validate_field, the fault is caught,
\* exactly one message "<field_name>: <fault description>" is appended to the
\* log, no later rule of the field is evaluated, and the call returns false.
C1_FaultMessageHasFieldPrefix ==
    FieldCallFaulted =>
        LET f == last.field_name
            i == FirstBad(f, last.value)
        IN  /\ last.escaped = NoExc
            /\ validation_errors =
                   Append(last.before,
                          f \o ": " \o FaultDescription(RuleSetOf(f)[i], last.value))
            /\ last.evaluated = i
            /\ last.ret = FALSE

\* C2: rules are evaluated in insertion order and validate_field stops at the
\* first rule whose predicate returns false: exactly one message
\* "<field_name>: <rule message>" of that rule is appended, no later rule is
\* evaluated or adds a message, and the call returns false.
C2_FirstFalseRuleStops ==
    FieldCallRuleFalse =>
        LET f == last.field_name
            i == FirstBad(f, last.value)
        IN  /\ validation_errors = Append(last.before, RuleMessage(f, RuleSetOf(f)[i]))
            /\ last.evaluated = i
            /\ last.ret = FALSE
            /\ last.escaped = NoExc

\* a later rule of the field would also fail or fault, and the log was not empty
C2_Witness ==
    /\ FieldCallRuleFalse
    /\ last.before # <<>>
    /\ LET f == last.field_name
           i == FirstBad(f, last.value)
       IN  /\ i < Len(RuleSetOf(f))
           /\ \E j \in (i + 1)..Len(RuleSetOf(f)) :
                  /\ ~Passes(RuleSetOf(f)[j], last.value)
                  /\ RuleSetOf(f)[j][2] # RuleSetOf(f)[i][2]
           /\ validation_errors = Append(last.before, RuleMessage(f, RuleSetOf(f)[i]))

----------------------------------------------------------------------------
(* The log across calls *)

\* C3: at every point after a validate_data call, get_errors() holds only
\* messages generated during the most recent validate_data call; messages of
\* earlier validate_data calls and of direct validate_field calls are absent.
C3_OnlyLastValidateMessages ==
    validated =>
        /\ \A i \in DOMAIN source : source[i] = "validate"
        /\ last.op = "get_errors" => last.result = validation_errors

\* C3 as amended: after a validate_data call the log holds the messages of the
\* most recent validate_data call followed by the messages of the
\* validate_field calls made directly since then; nothing older is present.
C3_LastValidateThenDirect ==
    validated =>
        /\ Len(source) = Len(validation_errors)
        /\ \A i \in DOMAIN source : source[i] \in {"validate", "direct"}
        /\ \A i, j \in DOMAIN source :
               (i < j /\ source[i] = "direct") => source[j] = "direct"
        /\ last.op = "get_errors" => last.result = validation_errors

\* get_errors returned a message of the last validate_data call and one of a
\* later direct validate_field call
C3_Witness ==
    /\ validated
    /\ last.op = "get_errors"
    /\ last.result = validation_errors
    /\ \E i, j \in DOMAIN source : source[i] = "validate" /\ source[j] = "direct"

\* C4: validate_data clears the log first, so the log after validate_data(r)
\* is the log a freshly constructed engine with the same registry has after
\* validate_data(r), whatever calls came before.
C4_LogAsOnFreshEngine ==
    IsDataCall =>
        validation_errors = validate_data(validation_rules, <<>>, last.data).errors

\* validate_data ran on a log that held entries and recorded a failure itself
C4_Witness ==
    /\ IsDataCall
    /\ last.dirty
    /\ validation_errors # <<>>
    /\ validation_errors = validate_data(validation_rules, <<>>, last.data).errors

\* C5: no fault of a predicate escapes validate_field or validate_data: both
\* return a boolean, and the fault is recorded as an entry of the log.
C5_NoFaultEscapes ==
    /\ (IsFieldCall \/ IsDataCall) => (last.escaped = NoExc /\ last.ret \in BOOLEAN)
    /\ FieldCallFaulted =>
           LET f == last.field_name
               i == FirstBad(f, last.value)
           IN  /\ validation_errors =
                      Append(last.before, FaultDescription(RuleSetOf(f)[i], last.value))
               /\ ~last.ret
    /\ IsDataCall =>
           /\ Len(last.calls) = Len(last.data)
           /\ \A k \in DOMAIN last.data :
                  LET f == last.data[k][1]
                      v == last.data[k][2]
                      i == FirstBad(f, v)
                  IN  (i # 0 /\ Faults(RuleSetOf(f)[i], v)) =>
                          /\ FaultDescription(RuleSetOf(f)[i], v) \in Range(validation_errors)
                          /\ ~last.ret

\* validate_data met a predicate that raised, and went on to the next field
C5_Witness ==
    /\ IsDataCall
    /\ last.escaped = NoExc
    /\ Len(last.data) = 2
    /\ LET f == last.data[1][1]
           v == last.data[1][2]
           i == FirstBad(f, v)
       IN  /\ i # 0
           /\ Faults(RuleSetOf(f)[i], v)
           /\ FaultDescription(RuleSetOf(f)[i], v) \in Range(validation_errors)
    /\ Len(last.calls) = 2
    /\ ~last.ret

----------------------------------------------------------------------------
(* validate_data over the fields of a record *)

\* the one message a failing field contributes: its first failing rule's
\* message, or the description of the fault its first faulting rule raised
FieldMessage(f, v) ==
    LET rule == RuleSetOf(f)[FirstBad(f, v)]
    IN  IF Faults(rule, v) THEN FaultDescription(rule, v) ELSE RuleMessage(f, rule)

\* items of the record whose field fails
FailingItems(data) == {k \in DOMAIN data : FieldFails(data[k][1], data[k][2])}

RECURSIVE ExpectedLog(_, _)
\* one message per failing field among the first k items, in item order
ExpectedLog(data, k) ==
    IF k = 0 THEN <<>>
    ELSE LET f == data[k][1]
             v == data[k][2]
         IN  IF FieldFails(f, v)
             THEN Append(ExpectedLog(data, k - 1), FieldMessage(f, v))
             ELSE ExpectedLog(data, k - 1)

\* C6: validate_data does not stop at the first failing field: it calls
\* validate_field on every field of the record, and the log then holds exactly
\* one message per failing field and none for passing fields.
C6_OneMessagePerFailingField ==
    IsDataCall =>
        /\ Len(last.calls) = Len(last.data)
        /\ \A k \in DOMAIN last.data :
               /\ last.calls[k].field_name = last.data[k][1]
               /\ last.calls[k].value = last.data[k][2]
        /\ Len(validation_errors) = Cardinality(FailingItems(last.data))
        /\ validation_errors = ExpectedLog(last.data, Len(last.data))

\* both fields of the record failed, one of them at its second rule
C6_Witness ==
    /\ IsDataCall
    /\ Len(last.data) = 2
    /\ FailingItems(last.data) = {1, 2}
    /\ \E k \in {1, 2} : FirstBad(last.data[k][1], last.data[k][2]) = 2
    /\ Len(last.calls) = 2
    /\ Len(validation_errors) = 2

\* C7: validate_data returns true iff validate_field returned true for every
\* (field, value) pair of the record; one failing field makes it false even
\* when later fields pass.
C7_ValidIffEveryFieldValid ==
    IsDataCall =>
        /\ Len(last.calls) = Len(last.data)
        /\ last.ret = (\A k \in DOMAIN last.calls : last.calls[k].ret)

\* the first field failed, the second passed its rules, the result is false
C7_Witness ==
    /\ IsDataCall
    /\ Len(last.calls) = 2
    /\ ~last.calls[1].ret
    /\ last.calls[2].ret
    /\ last.calls[2].evaluated > 0
    /\ ~last.ret

\* C8: validate_field returns true iff every rule registered for the field
\* returns true on the value without raising; it returns true only after all
\* rules of the field were evaluated.
C8_TrueIffAllRulesPass ==
    IsFieldCall =>
        LET rs == RuleSetOf(last.field_name)
        IN  /\ last.ret = (\A i \in DOMAIN rs : Passes(rs[i], last.value))
            /\ last.ret => last.evaluated = Len(rs)

\* validate_field returned true after evaluating two rules
C8_Witness ==
    /\ IsFieldCall
    /\ last.ret
    /\ Len(RuleSetOf(last.field_name)) >= 2
    /\ last.evaluated = Len(RuleSetOf(last.field_name))

\* C9: for a field name without registered rules validate_field returns true
\* for every value, evaluates no predicate and leaves the log unchanged.
C9_NoRulesIsValid ==
    (IsFieldCall /\ last.field_name \notin DOMAIN validation_rules) =>
        /\ last.ret
        /\ last.evaluated = 0
        /\ validation_errors = last.before
        /\ last.escaped = NoExc

\* validate_field ran on a field without rules while another field had rules
\* and the log held an entry
C9_Witness ==
    /\ IsFieldCall
    /\ last.field_name \notin DOMAIN validation_rules
    /\ DOMAIN validation_rules # {}
    /\ last.before # <<>>
    /\ validation_errors = last.before
    /\ last.ret

\* the items of the record whose field has rules, in the same order
Ruled(data) == SelectSeq(data, LAMBDA item : item[1] \in DOMAIN validation_rules)

\* C10: fields of the record without rules never influence validate_data: a
\* record none of whose fields has a rule validates to true with an empty log,
\* and the unruled fields of a record change neither the result nor the log.
C10_UnruledFieldsIgnored ==
    IsDataCall =>
        /\ Ruled(last.data) = <<>> => (last.ret /\ validation_errors = <<>>)
        /\ LET r == validate_data(validation_rules, <<>>, Ruled(last.data))
           IN  /\ last.ret = r.ret
               /\ validation_errors = r.errors
        /\ \A k \in DOMAIN last.calls :
               last.calls[k].field_name \notin DOMAIN validation_rules =>
                   (last.calls[k].ret /\ last.calls[k].evaluated = 0)

\* the record held an unruled field before a ruled field that failed
C10_Witness ==
    /\ IsDataCall
    /\ Len(last.data) = 2
    /\ last.data[1][1] \notin DOMAIN validation_rules
    /\ last.data[2][1] \in DOMAIN validation_rules
    /\ ~last.ret
    /\ Len(validation_errors) = 1

\* no field of the record had a rule, while the registry and the old log were
\* not empty
C10_WitnessNoRuledField ==
    /\ IsDataCall
    /\ last.data # <<>>
    /\ Ruled(last.data) = <<>>
    /\ DOMAIN validation_rules # {}
    /\ last.dirty
    /\ last.ret
    /\ validation_errors = <<>>

----------------------------------------------------------------------------
(* Fields of the registry that the record lacks *)

\* the registry without the fields that are no key of the record
RulesOfPresentFields(data) ==
    LET present == {data[k][1] : k \in DOMAIN data} \cap DOMAIN validation_rules
    IN  [f \in present |-> validation_rules[f]]

\* C11: fields that have rules but are absent from the record are not
\* validated: validate_data evaluates none of their predicates, records no
\* message for them, and they cannot make the result false.
C11_AbsentFieldsNotValidated ==
    IsDataCall =>
        /\ Len(last.calls) = Len(last.data)
        /\ \A k \in DOMAIN last.calls : last.calls[k].field_name = last.data[k][1]
        /\ LET r == validate_data(RulesOfPresentFields(last.data), <<>>, last.data)
           IN  /\ last.ret = r.ret
               /\ validation_errors = r.errors
        /\ Len(validation_errors) <= Len(last.data)

\* the record passed although a field with rules was missing from it
C11_Witness ==
    /\ IsDataCall
    /\ last.data # <<>>
    /\ \E f \in DOMAIN validation_rules : \A k \in DOMAIN last.data : last.data[k][1] # f
    /\ \E k \in DOMAIN last.calls : last.calls[k].evaluated > 0
    /\ last.ret
    /\ validation_errors = <<>>

----------------------------------------------------------------------------
(* get_errors and the list it returns *)

\* C12: get_errors returns a copy of the log: mutating the returned list
\* changes neither the engine's log nor the result of a later get_errors call,
\* and get_errors itself leaves the log and the registry unchanged.
C12_GetErrorsReturnsCopy ==
    [][ /\ last'.op = "get_errors" =>
              /\ validation_errors' = validation_errors
              /\ validation_rules' = validation_rules
              /\ last'.result = validation_errors
              /\ last.op = "caller_mutation" => last'.result = last.before
        /\ last'.op = "caller_mutation" =>
              /\ validation_errors' = validation_errors
              /\ validation_rules' = validation_rules
      ]_vars

\* the caller changed a returned list while the log held entries
C12_Witness ==
    /\ last.op = "caller_mutation"
    /\ held.ref # "none"
    /\ validation_errors # <<>>
    /\ HeldItems # validation_errors
    /\ validation_errors = last.before

----------------------------------------------------------------------------
(* Validating the same record twice *)

\* C13: with an unchanged registry, validate_data called twice in a row with
\* the same record returns the same boolean both times and get_errors gives
\* identical lists after each call; the second call does not accumulate the
\* first call's messages.
C13_ValidateIsIdempotent ==
    twice.ran =>
        /\ twice.second.ret = twice.first.ret
        /\ twice.second.errors = twice.first.errors
        /\ validation_errors = twice.first.errors

\* both calls failed with the same two messages
C13_Witness ==
    /\ twice.ran
    /\ ~twice.first.ret
    /\ Len(twice.first.errors) = 2
    /\ twice.second = twice.first

----------------------------------------------------------------------------
(* add_validation_rule *)

RECURSIVE RegisteredFor(_, _)
\* the rules of the first k registration calls that named field f, in call order
RegisteredFor(f, k) ==
    IF k = 0 THEN <<>>
    ELSE IF registered[k][1] = f
         THEN Append(RegisteredFor(f, k - 1), registered[k][2])
         ELSE RegisteredFor(f, k - 1)

\* C14: add_validation_rule appends the (predicate, message) pair at the end
\* of the field's rule list, creating the list when the field had none; after
\* any sequence of calls each field lists its rules in registration order, and
\* the rule lists of other fields and the log are untouched.
C14_RulesInRegistrationOrder ==
    /\ DOMAIN validation_rules = {registered[k][1] : k \in DOMAIN registered}
    /\ \A f \in DOMAIN validation_rules :
           validation_rules[f] = RegisteredFor(f, Len(registered))
    /\ last.op = "add_validation_rule" => validation_errors = last.before

\* a second, different rule was added to a field while another field had a
\* rule and the log held an entry
C14_Witness ==
    /\ last.op = "add_validation_rule"
    /\ Len(validation_rules[last.field_name]) = 2
    /\ validation_rules[last.field_name][1] # validation_rules[last.field_name][2]
    /\ registered[Len(registered)] =
           <<last.field_name, validation_rules[last.field_name][2]>>
    /\ DOMAIN validation_rules = Fields
    /\ validation_errors # <<>>

----------------------------------------------------------------------------
(* Scenario A *)

\* the registry after registering the type rule and then the range rule
AgeRegistry ==
    add_validation_rule(
        add_validation_rule([f \in {} |-> <<>>], "age", AgeRules[1][1], AgeRules[1][2]),
        "age", AgeRules[2][1], AgeRules[2][2])

AgeCall(v) ==
    /\ IsDataCall
    /\ validation_rules = AgeRegistry
    /\ last.data = <<<<"age", v>>>>

\* C15: with an integer-type rule and then a range [0,150] rule on "age", both
\* with the message "Age must be an integer between 0 and 150":
\* validate_data({"age": 25}) is true with no errors; {"age": 200} is false
\* with exactly ["age: Age must be an integer between 0 and 150"]; and
\* {"age": "twenty"} is false with that same single entry, from the type rule,
\* the range rule not being evaluated on the string.
C15_ScenarioA ==
    /\ AgeCall(IntValue(25)) =>
           (last.ret /\ validation_errors = <<>> /\ last.calls[1].evaluated = 2)
    /\ AgeCall(IntValue(200)) =>
           /\ ~last.ret
           /\ validation_errors = <<"age: Age must be an integer between 0 and 150">>
           /\ last.calls[1].evaluated = 2
    /\ AgeCall(StrValue("twenty")) =>
           /\ ~last.ret
           /\ validation_errors = <<"age: Age must be an integer between 0 and 150">>
           /\ last.calls[1].evaluated = 1

\* {"age": "twenty"} was validated after an earlier validation had failed
C15_Witness ==
    /\ AgeCall(StrValue("twenty"))
    /\ last.dirty
    /\ ~last.ret
    /\ Len(validation_errors) = 1

----------------------------------------------------------------------------
(* What the calls leave alone *)

IsPrefix(a, b) == Len(a) <= Len(b) /\ SubSeq(b, 1, Len(a)) = a

\* C16: validate_data, validate_field and get_errors never modify the registry
\* or the record passed in; only add_validation_rule changes the registry, and
\* no operation ever removes a rule.
C16_RegistryAndRecordUntouched ==
    /\ last.op \in {"validate_data", "validate_field", "get_errors"} =>
           validation_rules = last.rules
    /\ IsDataCall => last.after = last.data
    /\ validation_rules # last.rules => last.op = "add_validation_rule"
    /\ \A f \in DOMAIN last.rules :
           /\ f \in DOMAIN validation_rules
           /\ IsPrefix(last.rules[f], validation_rules[f])

\* a record with two fields failed validation against a registry of three
\* rules, and is as it was passed in
C16_Witness ==
    /\ IsDataCall
    /\ Len(last.data) = 2
    /\ last.after = last.data
    /\ ~last.ret
    /\ TotalRules = 3
    /\ DOMAIN validation_rules = Fields

----------------------------------------------------------------------------
(* Order of the record's fields *)

\* the orders in which n items can be iterated
Orders(n) == {p \in [1..n -> 1..n] : \A i, j \in 1..n : p[i] = p[j] => i = j}

\* C17: for a fixed registry, validate_data's result and the set of messages
\* in the log are the same for every iteration order of the record's fields;
\* the outcome for one field does not depend on the other fields.
C17_FieldOrderIrrelevant ==
    IsDataCall =>
        /\ \A p \in Orders(Len(last.data)) :
               LET reordered == [i \in 1..Len(last.data) |-> last.data[p[i]]]
                   r == validate_data(validation_rules, <<>>, reordered)
               IN  /\ r.ret = last.ret
                   /\ Range(r.errors) = Range(validation_errors)
        /\ \A k \in DOMAIN last.calls :
               LET alone == validate_field(validation_rules, <<>>,
                                           last.data[k][1], last.data[k][2])
               IN  /\ last.calls[k].ret = alone.ret
                   /\ last.calls[k].evaluated = alone.evaluated
                   /\ Range(alone.errors) \subseteq Range(validation_errors)

\* one field of the record failed and the other passed its rules
C17_Witness ==
    /\ IsDataCall
    /\ Len(last.data) = 2
    /\ \E i, j \in {1, 2} :
           /\ ~last.calls[i].ret
           /\ last.calls[j].ret
           /\ last.calls[j].evaluated > 0
    /\ ~last.ret
    /\ Len(validation_errors) = 1

----------------------------------------------------------------------------
(* parse_log_entry and load_logs *)

\* the number of spaces of a line: one less than its space-separated parts
NumSpaces(line) == Cardinality({i \in 1..Len(line) : line[i] = Space})

\* no level word anywhere in the line
NoLevelWord(line) == \A i \in 1..Len(line) : line[i] \notin Levels

\* the messages of the sample layout: words, single spaces between
SampleMessages == {join(ws) : ws \in (SeqsUpTo({"x"}, 2) \ {<<>>})}

\* "<date> <time> <LEVEL> <message>"
SampleLine(level, message) == <<"x", Space, "x", Space, level, Space>> \o message

IsSampleLine(line) ==
    \E level \in Levels, message \in SampleMessages :
        line = SampleLine(level, message)

IsSampleLineOf(line, level) ==
    \E message \in SampleMessages : line = SampleLine(level, message)

\* the lines of the file that have a character other than whitespace
NonBlank(file) == SelectSeq(file, LAMBDA l : \E i \in 1..Len(l) : l[i] # Space)

CountLines(file, level) ==
    Len(SelectSeq(file, LAMBDA l : IsSampleLineOf(l, level)))

IsSuffix(s, t) ==
    /\ Len(s) <= Len(t)
    /\ SubSeq(t, Len(t) - Len(s) + 1, Len(t)) = s

\* C18: parse_log_entry on a line "<date> <time> <LEVEL> <message>", LEVEL
\* one of INFO, ERROR, WARNING, returns timestamp "<date> <time>", level
\* LEVEL and message <message>; and on a file of such lines get_error_count
\* and get_warning_count are the numbers of loaded ERROR and WARNING lines.
C18_SampleLayoutParsed ==
    /\ log_last.op = "parse_log_entry" =>
           \A level \in Levels, message \in SampleMessages :
               log_last.line = SampleLine(level, message) =>
                   log_last.value = [timestamp |-> <<"x", Space, "x">>,
                                     level     |-> level,
                                     message   |-> message]
    /\ (\A k \in 1..Len(log_file) : IsSampleLine(log_file[k])) =>
           /\ log_last.op = "get_error_count" =>
                  log_last.count = loads * CountLines(log_file, "ERROR")
           /\ log_last.op = "get_warning_count" =>
                  log_last.count = loads * CountLines(log_file, "WARNING")

\* C19: parse_log_entry never raises and always returns a record with the
\* keys timestamp, level and message; a line with fewer than three
\* space-separated parts gives timestamp "", level "PARSE_ERROR" and the
\* whole line as message; a line of three parts or more with no level word
\* gives level "UNKNOWN"; and self.logs holds, for each load_logs call made,
\* one record per line that has a character other than whitespace, in the
\* order of the file.
C19_ParseNeverRaises ==
    /\ log_last.op = "parse_log_entry" =>
           /\ log_last.escaped = ""
           /\ DOMAIN log_last.value = {"timestamp", "level", "message"}
           /\ log_last.value.level \in Levels \cup {"UNKNOWN", "PARSE_ERROR"}
           /\ NumSpaces(log_last.line) < 2 =>
                  log_last.value = [timestamp |-> <<>>,
                                    level     |-> "PARSE_ERROR",
                                    message   |-> log_last.line]
           /\ NumSpaces(log_last.line) >= 2 /\ NoLevelWord(log_last.line) =>
                  log_last.value.level = "UNKNOWN"
    /\ log_last.op = "load_logs" => log_last.escaped = ""
    /\ LET lines == NonBlank(log_file)
           n     == Len(lines)
       IN  /\ Len(logs) = loads * n
           /\ \A k \in 1..Len(logs) :
                  LET line == strip(lines[((k - 1) % n) + 1])
                  IN  /\ IsSuffix(logs[k].message, line)
                      /\ \/ logs[k].timestamp = <<>> /\ logs[k].message = line
                         \/ /\ logs[k].timestamp # <<>>
                            /\ IsPrefix(logs[k].timestamp, line)

\* a file with a blank line between two lines of different kinds has been
\* loaded, and parse_log_entry has answered PARSE_ERROR for a one-word line
C19_Witness ==
    /\ loads >= 1
    /\ Len(log_file) = 3
    /\ NonBlank(log_file) # log_file
    /\ Len(logs) = 2
    /\ logs[1].level # logs[2].level
    /\ log_last.op = "parse_log_entry"
    /\ log_last.line # <<>>
    /\ NumSpaces(log_last.line) < 2
    /\ log_last.value.level = "PARSE_ERROR"

----------------------------------------------------------------------------
(* BankAccount: rejected and accepted operations *)

\* the entry an accepted call leaves in the transactions list
EntryOf(call) ==
    IF call[1] = "deposit"
    THEN "Deposit: +$" \o Format2f(call[2])
    ELSE "Withdrawal: -$" \o Format2f(call[2])

BankUnchanged ==
    /\ balance = bank_last.balance
    /\ transactions = bank_last.transactions

\* C20: deposit with amount <= 0, and withdraw with amount <= 0 or amount
\* above the balance, leave the balance and the transactions list as they
\* were and return the rejection message; every other deposit or withdrawal
\* changes the balance by exactly the amount and appends exactly one entry;
\* so the transactions list has one entry per accepted call, in call order.
C20_RejectedChangesNothing ==
    /\ bank_last.op = "deposit" /\ bank_last.amount <= 0 =>
           /\ BankUnchanged
           /\ bank_last.ret = "Invalid deposit amount"
    /\ /\ bank_last.op = "withdraw"
       /\ (bank_last.amount <= 0 \/ bank_last.amount > bank_last.balance)
       => /\ BankUnchanged
          /\ bank_last.ret = "Invalid withdrawal amount or insufficient funds"
    /\ bank_last.op = "deposit" /\ bank_last.amount > 0 =>
           /\ balance = bank_last.balance + bank_last.amount
           /\ transactions = Append(bank_last.transactions,
                                    EntryOf(<<"deposit", bank_last.amount>>))
           /\ bank_last.ret \notin RejectionMessages
    /\ /\ bank_last.op = "withdraw"
       /\ bank_last.amount > 0
       /\ bank_last.amount <= bank_last.balance
       => /\ balance = bank_last.balance - bank_last.amount
          /\ transactions = Append(bank_last.transactions,
                                   EntryOf(<<"withdraw", bank_last.amount>>))
          /\ bank_last.ret \notin RejectionMessages
    /\ Len(transactions) = Len(accepted)
    /\ \A k \in 1..Len(accepted) : transactions[k] = EntryOf(accepted[k])

\* after an accepted deposit and an accepted withdrawal, a withdrawal of
\* more than the balance has just been rejected
C20_Witness ==
    /\ Len(accepted) = 2
    /\ accepted[1][1] = "deposit"
    /\ accepted[2][1] = "withdraw"
    /\ bank_last.op = "withdraw"
    /\ bank_last.amount > 0
    /\ bank_last.amount > bank_last.balance
    /\ bank_last.ret \in RejectionMessages

----------------------------------------------------------------------------
(* BankAccount: the lists it hands out *)

\* C21: the transactions property and get_statement return copies of the
\* transaction list: reading leaves the account as it was and gives the
\* recorded entries, and a caller mutating a list it was given changes
\* neither the recorded transactions nor the balance.
C21_TransactionsAreCopies ==
    /\ bank_last.op \in {"transactions", "get_statement"} =>
           /\ BankUnchanged
           /\ bank_held.items = transactions
           /\ bank_held.ref # TransactionsObject
    /\ bank_last.op = "caller_mutation" => BankUnchanged

\* the caller changed a list it was given while the account held entries
C21_Witness ==
    /\ bank_last.op = "caller_mutation"
    /\ bank_held.ref # "none"
    /\ transactions # <<>>
    /\ BankHeldItems # transactions
    /\ balance # initial_balance

----------------------------------------------------------------------------
(* BankAccount: the balance *)

RECURSIVE NetOf(_)
\* the deposits less the withdrawals of a sequence of accepted calls
NetOf(calls) ==
    IF calls = <<>> THEN 0
    ELSE (IF calls[1][1] = "deposit" THEN calls[1][2] ELSE 0 - calls[1][2])
            + NetOf(Tail(calls))

\* C27: for an account created with initial_balance >= 0, after any sequence
\* of deposit and withdraw calls, with zero and negative amounts among them,
\* the balance is never negative and is the initial balance plus the accepted
\* deposits minus the accepted withdrawals.
C27_BalanceNeverNegative ==
    initial_balance >= 0 =>
        /\ balance >= 0
        /\ balance = initial_balance + NetOf(accepted)

\* an account opened at 0 is back at 0 after a deposit and a withdrawal, and
\* a further withdrawal has just been rejected
C27_Witness ==
    /\ initial_balance = 0
    /\ balance = 0
    /\ Len(accepted) = 2
    /\ accepted[1][1] = "deposit"
    /\ accepted[2][1] = "withdraw"
    /\ bank_last.op = "withdraw"
    /\ bank_last.ret \in RejectionMessages

----------------------------------------------------------------------------
(* Library borrowing *)

LibraryUnchanged ==
    /\ is_borrowed = lib_last.is_borrowed
    /\ borrower = lib_last.borrower
    /\ borrowed_books = lib_last.borrowed_books

\* C22: borrow_book on a book that is already borrowed, by the same or by
\* another member, and return_book by a member who does not hold the book
\* leave is_borrowed and borrower of every book and borrowed_books of every
\* member as they were; a member cannot return a book another member holds.
C22_RefusedCallsChangeNothing ==
    /\ lib_last.op = "borrow_book" /\ lib_last.is_borrowed[lib_last.book] =>
           LibraryUnchanged
    /\ /\ lib_last.op = "return_book"
       /\ \A i \in 1..Len(lib_last.borrowed_books[lib_last.member]) :
              lib_last.borrowed_books[lib_last.member][i] # lib_last.book
       => LibraryUnchanged
    /\ /\ lib_last.op = "return_book"
       /\ lib_last.borrower[lib_last.book] \notin {None, lib_last.member}
       => /\ LibraryUnchanged
          /\ lib_last.ret = "You haven't borrowed '" \o lib_last.book \o "'"

\* a member has just tried to return a book the other member holds, while
\* holding a book themselves
C22_Witness ==
    /\ lib_last.op = "return_book"
    /\ lib_last.borrower[lib_last.book] \notin {None, lib_last.member}
    /\ borrowed_books[lib_last.member] # <<>>
    /\ is_borrowed[lib_last.book]

----------------------------------------------------------------------------
(* DataProcessor.add_item *)

\* C23: add_item with a key already present or a key that is not a str
\* returns False without raising and leaves self.data as it was; with a new
\* str key it stores the value and returns True; so each key holds the value
\* of the first add_item that succeeded for it.
C23_AddItemNeverOverwrites ==
    /\ proc_last.op = "add_item" =>
           /\ proc_last.escaped = ""
           /\ proc_last.key.type # "str" \/ proc_last.key \in DOMAIN proc_last.data =>
                  /\ ~proc_last.ret
                  /\ processor_data = proc_last.data
           /\ proc_last.key.type = "str" /\ proc_last.key \notin DOMAIN proc_last.data =>
                  /\ proc_last.ret
                  /\ DOMAIN processor_data = DOMAIN proc_last.data \cup {proc_last.key}
                  /\ processor_data[proc_last.key] = proc_last.value
                  /\ \A k \in DOMAIN proc_last.data :
                         processor_data[k] = proc_last.data[k]
    /\ DOMAIN processor_data = DOMAIN first_added
    /\ \A k \in DOMAIN processor_data : processor_data[k] = first_added[k]

\* an add_item with another value for a key already stored was just refused
C23_Witness ==
    /\ proc_last.op = "add_item"
    /\ proc_last.key \in DOMAIN proc_last.data
    /\ proc_last.value # proc_last.data[proc_last.key]
    /\ ~proc_last.ret
    /\ Cardinality(DOMAIN processor_data) >= 2

----------------------------------------------------------------------------
(* The with statement on a DatabaseConnection *)

\* the number of times ev occurs in the events of this with statement
CountEvent(ev) == Cardinality({i \in 1..Len(events) : events[i] = ev})

\* the with statement has been left
LeftWith == with_pc \in {"after_with", "raising", "caught", "escaped"}

\* C24: whenever the with-block has been left, normally or by an exception
\* raised in the body, __exit__ has run, once and after the body, and
\* connection is None; an exception raised in the body is not suppressed: it
\* is still in flight after __exit__ and reaches the caller only after the
\* connection was closed.
C24_ExitAlwaysCloses ==
    /\ LeftWith /\ with_runs > 0 =>
           /\ connection = None
           /\ CountEvent("exit") = 1
           /\ \E i \in 1..Len(events) :
                  /\ events[i] = "exit"
                  /\ events[i - 1] \in {"raise", "end"}
    /\ LeftWith /\ body_raised # "" =>
           /\ with_pc # "after_with"
           /\ pending = body_raised
    /\ with_pc \in {"caught", "escaped"} =>
           /\ connection = None
           /\ events[Len(events)] = "propagate"
           /\ events[Len(events) - 1] = "exit"
    /\ with_pc = "after_with" /\ with_runs > 0 => body_raised = ""

\* in a second with statement on the object, the body used the connection
\* and raised a ValueError, which the caller caught after the close
C24_Witness ==
    /\ with_pc = "caught"
    /\ with_runs = 2
    /\ body_raised = "ValueError"
    /\ CountEvent("use") >= 1
    /\ connection = None

----------------------------------------------------------------------------
(* insert_data_from_files: the counts it prints *)

\* C25: for each table the number insert_data_from_files reports as
\* inserted is the number of rows of that file committed to the table, also
\* when some row raised IntegrityError or another database Error and was
\* rolled back and skipped.
C25_ReportedIsCommitted ==
    report.done /\ report.escaped = "" =>
        /\ report.successful_employees = Cardinality(tables.committed["employees"])
        /\ report.successful_products = Cardinality(tables.committed["products"])
        /\ report.successful_orders = Cardinality(tables.committed["orders"])

----------------------------------------------------------------------------
(* main: the connection is closed *)

\* C26: when main has ended, a connection obtained from
\* create_database_if_not_exists is closed, whichever way main ended
\* (verification failure, a database Error, another exception, normal
\* completion); and no step that is given the connection has run when a
\* required variable is missing or no connection was obtained.
C26_ConnectionClosedOnEveryPath ==
    /\ main_pc = "ended" => main_connection # "open"
    /\ unset_vars # {} => db_steps = <<>> /\ main_connection = "unassigned"
    /\ main_connection \in {"unassigned", None} => db_steps = <<>>

\* main has ended with an exception that is not a database Error in
\* flight, after the insert step, and the connection is closed
C26_Witness ==
    /\ main_pc = "ended"
    /\ main_pending = "other"
    /\ main_connection = "closed"
    /\ Len(db_steps) >= 2

====
